---- MODULE Spec2Model ----
(***************************************************************************)
(* gensim/similarities/levenshtein.py: levdist, levsim and                 *)
(* LevenshteinSimilarityIndex (__init__, most_similar).                    *)
(*                                                                         *)
(* Terms are sequences of characters.  Python floats are modelled as exact *)
(* rationals <<numerator, denominator>> with a positive denominator; beta  *)
(* is an integer-valued float, so x ** beta is an integer power and the    *)
(* real root x ** (1 / beta) is characterised by comparing beta-th powers. *)
(* The pyffs package (Trie, LevenshteinAutomaton,                          *)
(* trie_automaton_intersection, generate_automaton_to_file) is imported by *)
(* the module and is not part of the source tree; it is modelled from      *)
(* sections 3 and 4.1-4.3 of the specification.                            *)
(***************************************************************************)
EXTENDS Integers, Sequences, FiniteSets, TLC

VARIABLES
    phase,            \* "new" before LevenshteinSimilarityIndex(...), "built" after
    self,             \* the index object's attributes
    automaton_files,  \* the k for which generate_automaton_to_file(k) has run
    built,            \* history: the attributes as __init__ left them
    call,             \* the last most_similar call run to completion
    local,            \* per caller: the frame of a most_similar call in progress
    sim               \* the last levsim call

vars == <<phase, self, automaton_files, built, call, local, sim>>

---------------------------------------------------------------------------
(* Bounds of the model. *)

MaxLen == 3       \* longest term (dictionary word or query)
MaxVocab == 2     \* most terms in a dictionary
MaxTopN == 2      \* largest topn

CharOrder == <<"a", "b">>
Chars == {CharOrder[i] : i \in 1..Len(CharOrder)}

Terms == UNION {[1..n -> Chars] : n \in 0..MaxLen}

\* The sets of at most n terms
RECURSIVE TermSets(_)
TermSets(n) ==
    IF n = 0 THEN {{}}
    ELSE LET smaller == TermSets(n - 1)
         IN  smaller \cup {d \cup {t} : d \in smaller, t \in Terms}

Dictionaries == TermSets(MaxVocab)

TopNs == -1..MaxTopN

---------------------------------------------------------------------------
(* Exact rationals standing for Python floats. *)

Rat(n, d) == <<n, d>>
Zero == Rat(0, 1)
One == Rat(1, 1)
Half == Rat(1, 2)

RLt(x, y) == x[1] * y[2] < y[1] * x[2]
RLe(x, y) == x[1] * y[2] <= y[1] * x[2]
REq(x, y) == x[1] * y[2] = y[1] * x[2]
RMin(x, y) == IF RLe(x, y) THEN x ELSE y
RMax(x, y) == IF RLe(x, y) THEN y ELSE x
RMul(x, y) == Rat(x[1] * y[1], x[2] * y[2])
\* x / y for y # 0, keeping the denominator positive
RDiv(x, y) == IF y[1] > 0 THEN Rat(x[1] * y[2], x[2] * y[1])
              ELSE Rat(-(x[1] * y[2]), -(x[2] * y[1]))

RECURSIVE IPow(_, _)
IPow(n, b) == IF b = 0 THEN 1 ELSE n * IPow(n, b - 1)

RPow(x, b) == Rat(IPow(x[1], b), IPow(x[2], b))

Min(a, b) == IF a <= b THEN a ELSE b
Max(a, b) == IF a >= b THEN a ELSE b

\* The least integer n with n >= x, for x >= 0.
RECURSIVE CeilFrom(_, _)
CeilFrom(x, n) == IF RLe(x, Rat(n, 1)) THEN n ELSE CeilFrom(x, n + 1)

---------------------------------------------------------------------------
(* Outcomes of a call: a returned value or a raised exception. *)

NoValue == Zero
Return(v) == [kind |-> "return", exc |-> "", value |-> v]
Raise(e) == [kind |-> "raise", exc |-> e, value |-> NoValue]

\* distance=None is <<>>, distance=d is <<d>>
None == <<>>
Some(d) == <<d>>

---------------------------------------------------------------------------
(* Levenshtein.distance: the edit distance, by the full dynamic programme. *)

Levenshtein_distance(t1, t2) ==
    LET d[i \in 0..Len(t1), j \in 0..Len(t2)] ==
            IF i = 0 THEN j
            ELSE IF j = 0 THEN i
            ELSE Min(Min(d[i - 1, j] + 1, d[i, j - 1] + 1),
                     d[i - 1, j - 1] + (IF t1[i] = t2[j] THEN 0 ELSE 1))
    IN  d[Len(t1), Len(t2)]

\* levdist(t1, t2, max_distance)
levdist(t1, t2, max_distance) ==
    LET distance == Levenshtein_distance(t1, t2)
    IN  IF distance > max_distance THEN Max(Len(t1), Len(t2)) ELSE distance

---------------------------------------------------------------------------
(* levsim *)

\* float(max(min(min_similarity, 1.0), 0.0))
clamp_min_similarity(min_similarity) == RMax(RMin(min_similarity, One), Zero)

\* int(floor(max_lengths * (1 - (min_similarity / alpha) ** (1 / beta)))) for
\* alpha > 0, beta > 0 and a clamped min_similarity.  With
\* r = (min_similarity / alpha) ** (1 / beta) >= 0, an integer d is at most
\* max_lengths * (1 - r) exactly when d <= max_lengths and
\* r <= (max_lengths - d) / max_lengths, that is when
\* min_similarity / alpha <= ((max_lengths - d) / max_lengths) ** beta.
\* The floor is the largest such d; it is at least
\* max_lengths * (1 - ceil(min_similarity / alpha)).
floor_max_distance_ceil(max_lengths, alpha, beta, min_similarity) ==
    LET x == RDiv(min_similarity, alpha)
        lo == max_lengths - max_lengths * CeilFrom(x, 0)
        below == {d \in lo..max_lengths :
                     RLe(x, RPow(Rat(max_lengths - d, max_lengths), beta))}
        fl == CHOOSE d \in below : \A e \in below : e <= d
    IN  \* rounds up when the product is not an integer
        IF REq(x, RPow(Rat(max_lengths - fl, max_lengths), beta)) THEN fl ELSE fl + 1

floor_max_distance(max_lengths, alpha, beta, min_similarity) ==
    LET x == RDiv(min_similarity, alpha)
        lo == max_lengths - max_lengths * CeilFrom(x, 0)
        below == {d \in lo..max_lengths :
                     RLe(x, RPow(Rat(max_lengths - d, max_lengths), beta))}
    IN  CHOOSE d \in below : \A e \in below : e <= d

\* alpha * (1 - distance * 1.0 / max_lengths) ** beta
similarity(alpha, beta, distance, max_lengths) ==
    RMul(alpha, RPow(Rat(max_lengths - distance, max_lengths), beta))

levsim(t1, t2, alpha, beta, min_similarity, distance) ==
    IF RLt(alpha, Zero) THEN Raise("AssertionError")
    ELSE IF beta < 0 THEN Raise("AssertionError")
    ELSE LET max_lengths == Max(Len(t1), Len(t2)) IN
         IF max_lengths = 0 THEN Return(One)
         ELSE IF alpha[1] = 0 \/ beta = 0 THEN Raise("ZeroDivisionError")
         ELSE LET ms == clamp_min_similarity(min_similarity)
                  max_distance == floor_max_distance(max_lengths, alpha, beta, ms)
                  dist == IF distance = None
                          THEN levdist(t1, t2, max_distance)
                          ELSE distance[1]
              IN  Return(similarity(alpha, beta, dist, max_lengths))

---------------------------------------------------------------------------
(* pyffs, from the specification (sections 3, 4.1, 4.2, 4.3). *)

\* Trie(words, alphabet) fills the alphabet with the characters of the words
TrieAlphabet(words) == UNION {{w[i] : i \in 1..Len(w)} : w \in words}

\* Trie(words, alphabet): one node per prefix of a word, the words terminal
Trie(words) ==
    [nodes |-> UNION {{SubSeq(w, 1, n) : n \in 0..Len(w)} : w \in words},
     terminal |-> words]

\* The automaton factory fails fast on a negative maximum distance.
LevenshteinAutomaton_rejects(tolerance) == tolerance < 0

\* LevenshteinAutomaton(tolerance, query_word, alphabet)
LevenshteinAutomaton(tolerance, query_word, alphabet) ==
    [tolerance |-> tolerance, query_word |-> query_word, alphabet |-> alphabet]

\* A state is a set of <<offset, error>> pairs with error <= tolerance.
Err(A, state, i) ==
    IF \E p \in state : p[1] = i
    THEN (CHOOSE p \in state : p[1] = i)[2]
    ELSE A.tolerance + 1

initial_state(A) ==
    {<<i, i>> : i \in 0..Min(A.tolerance, Len(A.query_word))}

\* One row of the banded recurrence: the tree character c is consumed.
step(A, state, c) ==
    LET n == Len(A.query_word)
        row[i \in 0..n] ==
            LET ins == Err(A, state, i) + 1
                sub == IF i = 0 THEN A.tolerance + 1
                       ELSE Err(A, state, i - 1)
                            + (IF A.query_word[i] = c THEN 0 ELSE 1)
                del == IF i = 0 THEN A.tolerance + 1 ELSE row[i - 1] + 1
            IN  Min(A.tolerance + 1, Min(ins, Min(sub, del)))
    IN  {<<i, row[i]>> : i \in {j \in 0..n : row[j] <= A.tolerance}}

is_dead(state) == state = {}

distance_if_terminal(A, state) ==
    IF Err(A, state, Len(A.query_word)) <= A.tolerance
    THEN Some(Err(A, state, Len(A.query_word)))
    ELSE None

\* trie_automaton_intersection(automaton, trie, True): depth first from the
\* root, children in character order, dead states pruned; yields
\* <<error, term>> at every accepting terminal node.
RECURSIVE Visit(_, _, _, _)
RECURSIVE VisitChildren(_, _, _, _, _)
Visit(A, trie, node, state) ==
    (IF node \in trie.terminal /\ distance_if_terminal(A, state) # None
     THEN << <<distance_if_terminal(A, state)[1], node>> >>
     ELSE <<>>)
    \o VisitChildren(A, trie, node, state, 1)

VisitChildren(A, trie, node, state, ci) ==
    IF ci > Len(CharOrder) THEN <<>>
    ELSE LET child == Append(node, CharOrder[ci])
             next == step(A, state, CharOrder[ci])
         IN  (IF child \in trie.nodes /\ ~is_dead(next)
              THEN Visit(A, trie, child, next)
              ELSE <<>>)
             \o VisitChildren(A, trie, node, state, ci + 1)

trie_automaton_intersection(A, trie) == Visit(A, trie, <<>>, initial_state(A))

---------------------------------------------------------------------------
(* LevenshteinSimilarityIndex *)

DefaultAlpha == Rat(9, 5)
DefaultBeta == 5
DefaultMaxDistance == 2

\* <<alpha, beta>> given to the constructor; it checks neither.
Params == {<<DefaultAlpha, DefaultBeta>>, <<One, 1>>, <<Zero, DefaultBeta>>,
           <<One, 0>>, <<Rat(-1, 1), 1>>}
Thresholds == {Zero, Half, One}
MaxDistances == -1..DefaultMaxDistance

\* <<alpha, beta, threshold, max_distance>>: every scoring configuration at
\* the default max_distance, and every max_distance with threshold 0.
Configs ==
    {<<p[1], p[2], th, DefaultMaxDistance>> : p \in Params, th \in Thresholds}
    \cup {<<p[1], p[2], Zero, k>> :
             p \in {<<DefaultAlpha, DefaultBeta>>, <<One, 1>>}, k \in MaxDistances}

NoSelf ==
    [dictionary |-> {}, alpha |-> Zero, beta |-> 0, threshold |-> Zero,
     max_distance |-> 0, words |-> {}, alphabet |-> {},
     trie |-> [nodes |-> {}, terminal |-> {}]]

\* The attributes __init__ assigns.  words = list(dictionary.token2id) is kept
\* as the set of tokens: the trie does not depend on their order.
init_self(dictionary, alpha, beta, threshold, max_distance) ==
    [dictionary |-> dictionary, alpha |-> alpha, beta |-> beta,
     threshold |-> threshold, max_distance |-> max_distance,
     words |-> dictionary, alphabet |-> TrieAlphabet(dictionary),
     trie |-> Trie(dictionary)]

\* for k in range(max_distance + 1): generate_automaton_to_file(k)
init_automaton_files(files, max_distance) == files \cup (0..max_distance)

\* Outcome of most_similar: the returned list or the exception raised.
MSReturn(v) == [kind |-> "return", exc |-> "", value |-> v]
MSRaise(e) == [kind |-> "raise", exc |-> e, value |-> <<>>]

\* automaton = LevenshteinAutomaton(self.max_distance, t1, self.alphabet)
most_similar_automaton_short(s, t1) ==
    LevenshteinAutomaton(s.max_distance - 1, t1, s.alphabet)

most_similar_automaton(s, t1) ==
    LevenshteinAutomaton(s.max_distance, t1, s.alphabet)

\* The pairs the comprehension iterates over; the automaton factory rejects a
\* negative tolerance.
most_similar_received(s, t1) ==
    LET automaton == most_similar_automaton(s, t1)
    IN  IF LevenshteinAutomaton_rejects(automaton.tolerance)
        THEN MSRaise("InvalidArgument")
        ELSE MSReturn(trie_automaton_intersection(automaton, s.trie))

\* similarities = [(levsim(t1, t2, alpha, beta, threshold, distance=error), t2)
\*                 for error, t2 in ... if t1 != t2]
RECURSIVE similarities_unfiltered(_, _, _, _)
similarities_unfiltered(s, t1, received, acc) ==
    IF received = <<>> THEN MSReturn(acc)
    ELSE LET error == Head(received)[1]
             t2 == Head(received)[2]
             r == levsim(t1, t2, s.alpha, s.beta, s.threshold, Some(error))
         IN  IF r.kind = "raise" THEN MSRaise(r.exc)
             ELSE similarities_unfiltered(s, t1, Tail(received),
                                          Append(acc, <<r.value, t2>>))

RECURSIVE similarities(_, _, _, _)
similarities(s, t1, received, acc) ==
    IF received = <<>> THEN MSReturn(acc)
    ELSE LET error == Head(received)[1]
             t2 == Head(received)[2]
         IN  IF t1 = t2 THEN similarities(s, t1, Tail(received), acc)
             ELSE LET r == levsim(t1, t2, s.alpha, s.beta, s.threshold, Some(error))
                  IN  IF r.kind = "raise" THEN MSRaise(r.exc)
                      ELSE similarities(s, t1, Tail(received),
                                        Append(acc, <<r.value, t2>>))

\* most_similar = [(t2, sim) for sim, t2 in similarities if sim > 0]
RECURSIVE positive(_)
positive(sims) ==
    IF sims = <<>> THEN <<>>
    ELSE (IF RLt(Zero, Head(sims)[1])
          THEN << <<Head(sims)[2], Head(sims)[1]>> >>
          ELSE <<>>) \o positive(Tail(sims))

\* sorted(most_similar, key=lambda item: -item[1]): stable, by descending
\* similarity.  insert puts an item after every item that is not smaller.
RECURSIVE insert(_, _)
insert(sorted_items, item) ==
    IF sorted_items = <<>> THEN <<item>>
    ELSE IF RLt(Head(sorted_items)[2], item[2])
         THEN <<item>> \o sorted_items
         ELSE <<Head(sorted_items)>> \o insert(Tail(sorted_items), item)

RECURSIVE sorted_from(_, _)
sorted_from(items, acc) ==
    IF items = <<>> THEN acc
    ELSE sorted_from(Tail(items), insert(acc, Head(items)))

sorted_ascending(items) ==
    LET desc == sorted_from(items, <<>>)
    IN  [i \in 1..Len(desc) |-> desc[Len(desc) + 1 - i]]

sorted(items) == sorted_from(items, <<>>)

\* items[ : int(topn)]
slice_inclusive(items, topn) ==
    IF topn + 1 >= 0 THEN SubSeq(items, 1, Min(topn + 1, Len(items)))
    ELSE SubSeq(items, 1, Max(Len(items) + topn + 1, 0))

slice(items, topn) ==
    IF topn >= 0 THEN SubSeq(items, 1, Min(topn, Len(items)))
    ELSE SubSeq(items, 1, Max(Len(items) + topn, 0))

\* most_similar(t1, topn), from the pairs the intersection yields
most_similar_of(s, t1, topn, received) ==
    IF received.kind = "raise" THEN received
    ELSE LET sims == similarities(s, t1, received.value, <<>>)
         IN  IF sims.kind = "raise" THEN sims
             ELSE MSReturn(slice(sorted(positive(sims.value)), topn))

\* most_similar(t1, topn)
most_similar(s, t1, topn) ==
    most_similar_of(s, t1, topn, most_similar_received(s, t1))

\* most_similar assigns no attribute of self.
most_similar_self_shrunk(s, t1) ==
    [s EXCEPT !.max_distance = Min(s.max_distance, Len(t1))]

most_similar_self(s, t1) == s

---------------------------------------------------------------------------
(* The index: one construction, then most_similar calls one after another. *)

NoCall ==
    [state |-> "none", t1 |-> <<>>, topn |-> 0, tolerance |-> 0,
     received |-> MSReturn(<<>>), outcome |-> MSReturn(<<>>)]

Callers == {1, 2}
Idle ==
    [pc |-> "idle", t1 |-> <<>>, topn |-> 0,
     automaton |-> LevenshteinAutomaton(0, <<>>, {}),
     received |-> <<>>, similarities |-> <<>>, most_similar |-> <<>>,
     outcome |-> MSReturn(<<>>)]

NoSim ==
    [state |-> "none", t1 |-> <<>>, t2 |-> <<>>, alpha |-> Zero, beta |-> 0,
     min_similarity |-> Zero, distance |-> None, max_distance |-> 0,
     outcome |-> Return(Zero)]

Init ==
    /\ phase = "new"
    /\ self = NoSelf
    /\ automaton_files = {}
    /\ built = NoSelf
    /\ call = NoCall
    /\ local = [c \in Callers |-> Idle]
    /\ sim = NoSim

\* LevenshteinSimilarityIndex(dictionary, alpha, beta, threshold, max_distance)
LevenshteinSimilarityIndex(dictionary, alpha, beta, threshold, max_distance) ==
    /\ phase = "new"
    /\ phase' = "built"
    /\ self' = init_self(dictionary, alpha, beta, threshold, max_distance)
    /\ built' = self'
    /\ automaton_files' = init_automaton_files(automaton_files, max_distance)
    /\ UNCHANGED <<call, local, sim>>

\* index.most_similar(t1, topn), run to completion
MostSimilar(t1, topn) ==
    /\ phase = "built"
    /\ call.state = "none"
    /\ LET received == most_similar_received(self, t1)
       IN  call' = [state |-> "done", t1 |-> t1, topn |-> topn,
                    tolerance |-> most_similar_automaton(self, t1).tolerance,
                    received |-> received,
                    outcome |-> most_similar_of(self, t1, topn, received)]
    /\ self' = most_similar_self(self, t1)
    /\ UNCHANGED <<phase, automaton_files, built, local, sim>>

Construct ==
    /\ phase = "new"
    /\ \E dictionary \in Dictionaries, c \in Configs :
        LevenshteinSimilarityIndex(dictionary, c[1], c[2], c[3], c[4])

Query ==
    /\ phase = "built"
    /\ call.state = "none"
    /\ \E t1 \in Terms, topn \in TopNs : MostSimilar(t1, topn)

\* The caller drops the returned list (or handles the exception); the index
\* is ready for the next call.
Discard ==
    /\ call.state = "done"
    /\ call' = NoCall
    /\ UNCHANGED <<phase, self, automaton_files, built, local, sim>>

Next == Construct \/ Query \/ Discard

Spec == Init /\ [][Next]_vars

---------------------------------------------------------------------------
(* Properties of most_similar, stated on the last completed call. *)

Returned == call.state = "done" /\ call.outcome.kind = "return"
Received == call.received.value
Result == call.outcome.value
Range(seq) == {seq[i] : i \in 1..Len(seq)}

\* The terms of the vocabulary within edit distance k of q, with their
\* distance, by direct dynamic programming.
Ball(V, q, k) ==
    {<<Levenshtein_distance(q, t), t>> :
        t \in {w \in V : Levenshtein_distance(q, w) <= k}}

\* C1: the <<distance, term>> pairs most_similar receives from the
\* trie/automaton intersection are exactly the pairs <<edit_distance(q, t), t>>
\* of the dictionary terms t within max_distance of the query q, each once.
C1_ReceivedIsBall ==
    (call.state = "done" /\ call.received.kind = "return") =>
        /\ Range(Received) = Ball(self.words, call.t1, self.max_distance)
        /\ Len(Received) = Cardinality(Range(Received))

\* A call that received a term at distance 2 while a dictionary term lay
\* outside the ball.
C1_Witness ==
    /\ call.state = "done" /\ call.received.kind = "return"
    /\ \E p \in Range(Received) : p[1] = 2
    /\ \E w \in self.words :
          Levenshtein_distance(call.t1, w) > self.max_distance

\* C2: the list most_similar(q, topn) returns holds no pair whose term is q.
C2_SelfExcluded ==
    Returned => \A i \in 1..Len(Result) : Result[i][1] # call.t1

\* The query is a dictionary term, the traversal yielded it, and the call
\* returned other terms.
C2_Witness ==
    /\ Returned
    /\ call.t1 \in self.words
    /\ <<0, call.t1>> \in Range(Received)
    /\ Result # <<>>

\* The matches: the received pairs whose term is not the query, scored.
Score(t2, error) ==
    levsim(call.t1, t2, self.alpha, self.beta, self.threshold, Some(error)).value

PositiveMatches ==
    {i \in 1..Len(Received) :
        Received[i][2] # call.t1 /\ RLt(Zero, Score(Received[i][2], Received[i][1]))}

\* C3 as claimed: for every integer topn the returned list has
\* min(topn, number of positive-score matches) items.
C3_AsClaimed ==
    Returned => Len(Result) = Min(call.topn, Cardinality(PositiveMatches))

\* C3 amended: with n positive-score matches the returned list has
\* min(topn, n) items when topn >= 0 and max(n + topn, 0) items when topn < 0.
C3_Length ==
    Returned =>
        LET n == Cardinality(PositiveMatches)
        IN  Len(Result) = IF call.topn >= 0 THEN Min(call.topn, n)
                          ELSE Max(n + call.topn, 0)

\* A call whose list was cut to topn >= 1 items.
C3_Witness ==
    /\ Returned
    /\ call.topn >= 1
    /\ Cardinality(PositiveMatches) > call.topn
    /\ Len(Result) = call.topn

\* C4: the returned list is in descending order of similarity, and no
\* positive-score match left out of it scores strictly higher than a returned one.
C4_SortedTop ==
    Returned =>
        /\ \A i, j \in 1..Len(Result) : i < j => RLe(Result[j][2], Result[i][2])
        /\ \A m \in PositiveMatches :
              Received[m][2] \notin {Result[i][1] : i \in 1..Len(Result)} =>
                  \A i \in 1..Len(Result) :
                      RLe(Score(Received[m][2], Received[m][1]), Result[i][2])

\* A call that received a lower-scoring match before a higher-scoring one and
\* returned both, or only the higher-scoring one.
C4_Witness ==
    /\ Returned
    /\ Result # <<>>
    /\ \E m, n \in PositiveMatches :
          /\ m < n
          /\ RLt(Score(Received[m][2], Received[m][1]),
                 Score(Received[n][2], Received[n][1]))
          /\ Result[1][1] = Received[n][2]

\* C5: every pair most_similar returns has a similarity greater than the
\* threshold the index was built with, clamped to [0, 1].
C5_AsClaimed ==
    Returned =>
        \A i \in 1..Len(Result) :
            RLt(clamp_min_similarity(self.threshold), Result[i][2])

\* The bound the threshold implies for terms of length max_lengths.
ThresholdBound(max_lengths) ==
    floor_max_distance(max_lengths, self.alpha, self.beta,
                       clamp_min_similarity(self.threshold))

\* C6: the tolerance given to the automaton is
\* min(max_distance, threshold-derived bound), for the bound of some term
\* length the call can meet.
C6_AsClaimed ==
    (call.state = "done" /\ RLt(Zero, self.alpha) /\ self.beta > 0) =>
        \E max_lengths \in 1..MaxLen :
            call.tolerance = Min(self.max_distance, ThresholdBound(max_lengths))

\* C7: no index with a negative max_distance exists, and no call gives the
\* automaton a negative tolerance.
C7_AsClaimed ==
    /\ phase = "built" => self.max_distance >= 0
    /\ call.state = "done" => call.tolerance >= 0

---------------------------------------------------------------------------
(* levsim called directly. *)

SimAlphas == {Rat(-1, 1), Zero, One, DefaultAlpha}
SimBetas == {-1, 0, 1, 2, DefaultBeta}
SimThresholds == {Zero, Half, One, Rat(3, 2)}
SimDistances == {None} \cup {Some(d) : d \in 0..MaxLen}

\* Whether levsim reaches the assignment of max_distance
levsim_reaches_max_distance(t1, t2, alpha, beta) ==
    /\ RLt(Zero, alpha) /\ beta > 0
    /\ Max(Len(t1), Len(t2)) > 0

\* levsim(t1, t2, alpha, beta, min_similarity, distance); max_distance is the
\* local the call derives from min_similarity.
Levsim(t1, t2, alpha, beta, min_similarity, distance) ==
    /\ sim.state = "none"
    /\ sim' = [state |-> "done", t1 |-> t1, t2 |-> t2, alpha |-> alpha,
               beta |-> beta, min_similarity |-> min_similarity,
               distance |-> distance,
               max_distance |->
                   IF levsim_reaches_max_distance(t1, t2, alpha, beta)
                   THEN floor_max_distance(Max(Len(t1), Len(t2)), alpha, beta,
                                           clamp_min_similarity(min_similarity))
                   ELSE 0,
               outcome |-> levsim(t1, t2, alpha, beta, min_similarity, distance)]
    /\ UNCHANGED <<phase, self, automaton_files, built, call, local>>

SimCall ==
    /\ sim.state = "none"
    /\ \E t1 \in Terms, t2 \in Terms, alpha \in SimAlphas, beta \in SimBetas,
          min_similarity \in SimThresholds, distance \in SimDistances :
           Levsim(t1, t2, alpha, beta, min_similarity, distance)

\* The caller drops the result; levsim keeps no state.
SimDiscard ==
    /\ sim.state = "done"
    /\ sim' = NoSim
    /\ UNCHANGED <<phase, self, automaton_files, built, call, local>>

NextSim == SimCall \/ SimDiscard

SpecSim == Init /\ [][NextSim]_vars

\* C8: levsim raises exactly when alpha < 0 or beta < 0, and returns a score
\* for every alpha >= 0 and beta >= 0.
C8_AsClaimed ==
    sim.state = "done" =>
        (sim.outcome.kind = "raise" <=> (RLt(sim.alpha, Zero) \/ sim.beta < 0))

SimMaxLengths == Max(Len(sim.t1), Len(sim.t2))
SimScoreAt(d) == similarity(sim.alpha, sim.beta, d, SimMaxLengths)

\* The calls of C9: valid parameters for which the bound is computed.
SimBoundComputed ==
    /\ sim.state = "done"
    /\ levsim_reaches_max_distance(sim.t1, sim.t2, sim.alpha, sim.beta)
    /\ RLe(Zero, sim.min_similarity) /\ RLe(sim.min_similarity, One)

---------------------------------------------------------------------------
(* Two callers querying one index, each most_similar call in four steps:   *)
(* the automaton is built, the comprehension over the intersection runs,   *)
(* the positive similarities are kept, the list is sorted and cut.         *)

ConcMaxLen == 2

ConcTerms ==
    {t \in Terms : Len(t) <= ConcMaxLen /\ \A i \in 1..Len(t) : t[i] = CharOrder[1]}

ConcConfigs ==
    {<<DefaultAlpha, DefaultBeta, Zero, DefaultMaxDistance>>,
     <<One, 1, Half, 1>>,
     <<Zero, DefaultBeta, Zero, DefaultMaxDistance>>,
     <<DefaultAlpha, DefaultBeta, Zero, -1>>}

ConcConstruct ==
    /\ phase = "new"
    /\ \E dictionary \in {d \in Dictionaries : d \subseteq ConcTerms},
          c \in ConcConfigs :
           LevenshteinSimilarityIndex(dictionary, c[1], c[2], c[3], c[4])

Frame(c) == local[c]

\* most_similar(t1, topn) is entered
Enter(c, t1, topn) ==
    /\ phase = "built"
    /\ Frame(c).pc = "idle"
    /\ local' = [local EXCEPT ![c] = [Idle EXCEPT !.pc = "automaton",
                                                  !.t1 = t1, !.topn = topn]]
    /\ UNCHANGED <<phase, self, automaton_files, built, call, sim>>

\* automaton = LevenshteinAutomaton(self.max_distance, t1, self.alphabet)
BuildAutomaton(c) ==
    /\ Frame(c).pc = "automaton"
    /\ LET automaton == most_similar_automaton(self, Frame(c).t1)
       IN  local' = [local EXCEPT ![c] =
                IF LevenshteinAutomaton_rejects(automaton.tolerance)
                THEN [@ EXCEPT !.pc = "done", !.outcome = MSRaise("InvalidArgument")]
                ELSE [@ EXCEPT !.pc = "similarities", !.automaton = automaton]]
    /\ self' = most_similar_self(self, Frame(c).t1)
    /\ UNCHANGED <<phase, automaton_files, built, call, sim>>

\* similarities = [... for error, t2 in trie_automaton_intersection(...) if t1 != t2]
Similarities(c) ==
    /\ Frame(c).pc = "similarities"
    /\ LET received == trie_automaton_intersection(Frame(c).automaton, self.trie)
           sims == similarities(self, Frame(c).t1, received, <<>>)
       IN  local' = [local EXCEPT ![c] =
                IF sims.kind = "raise"
                THEN [@ EXCEPT !.pc = "done", !.received = received, !.outcome = sims]
                ELSE [@ EXCEPT !.pc = "most_similar", !.received = received,
                               !.similarities = sims.value]]
    /\ UNCHANGED <<phase, self, automaton_files, built, call, sim>>

\* most_similar = [(t2, sim) for sim, t2 in similarities if sim > 0]
Positive(c) ==
    /\ Frame(c).pc = "most_similar"
    /\ local' = [local EXCEPT ![c] =
            [@ EXCEPT !.pc = "sorted", !.most_similar = positive(Frame(c).similarities)]]
    /\ UNCHANGED <<phase, self, automaton_files, built, call, sim>>

\* return sorted(most_similar, key=...)[ : int(topn)]
SortedReturn(c) ==
    /\ Frame(c).pc = "sorted"
    /\ local' = [local EXCEPT ![c] =
            [@ EXCEPT !.pc = "done",
                      !.outcome = MSReturn(slice(sorted(Frame(c).most_similar),
                                                     Frame(c).topn))]]
    /\ UNCHANGED <<phase, self, automaton_files, built, call, sim>>

\* The caller takes the outcome; the frame is gone.
Leave(c) ==
    /\ Frame(c).pc = "done"
    /\ local' = [local EXCEPT ![c] = Idle]
    /\ UNCHANGED <<phase, self, automaton_files, built, call, sim>>

ConcEnter ==
    /\ phase = "built"
    /\ \E c \in Callers, t1 \in ConcTerms, topn \in TopNs : Enter(c, t1, topn)

ConcStep ==
    \E c \in Callers :
        \/ BuildAutomaton(c)
        \/ Similarities(c)
        \/ Positive(c)
        \/ SortedReturn(c)
        \/ Leave(c)

NextConc == ConcConstruct \/ ConcEnter \/ ConcStep

SpecConc == Init /\ [][NextConc]_vars

\* C10: whatever calls have run or are running, the attributes of the index
\* are those __init__ assigned, and a finished call has the outcome the same
\* call has when run alone on the index as built.
C10_Independent ==
    /\ phase = "built" => self = built
    /\ \A c \in Callers :
          Frame(c).pc = "done" =>
              Frame(c).outcome = most_similar(built, Frame(c).t1, Frame(c).topn)

\* One caller has returned a non-empty list while the other is in the middle
\* of its own call.
C10_Witness ==
    /\ Frame(1).pc = "done" /\ Frame(1).outcome.kind = "return"
    /\ Frame(1).outcome.value # <<>>
    /\ Frame(2).pc \in {"similarities", "most_similar", "sorted"}
    /\ Frame(2).t1 # Frame(1).t1

---------------------------------------------------------------------------
(* levsim in IEEE-754 binary64, for alpha = 1.0 and beta = 1.0.  There      *)
(* x / 1.0, x ** 1.0 and 1.0 * x are x, and every other operation of        *)
(* lines 101-105 is a correctly rounded division, subtraction or product.  *)
(* A value in [0, 16) that is a multiple of 2^-60 is kept as three limbs    *)
(* <<l1, l2, l3>> of 20 bits: (l1 * 2^40 + l2 * 2^20 + l3) * 2^-60.          *)

Limb == IPow(2, 20)

\* Limbs brought back into 0..Limb-1, carries and borrows moved up.
Carry(x) ==
    LET s2 == x[2] + (x[3] \div Limb)
    IN  <<x[1] + (s2 \div Limb), s2 % Limb, x[3] % Limb>>

RECURSIVE BitLen(_)
BitLen(n) == IF n = 0 THEN 0 ELSE 1 + BitLen(n \div 2)

\* The spacing of binary64 values around x, in units of 2^-60: a value in
\* [2^e, 2^(e+1)) has 53 significant bits, the last of weight 2^(e-52).
Quantum(x) == IF BitLen(x[1]) < 13 THEN 1 ELSE IPow(2, BitLen(x[1]) - 13)

\* Round to nearest, ties to even: x is the exact result cut to a multiple of
\* 2^-60 and num / den < 1 the part of a unit that was cut off.
F64Round(x, num, den) ==
    LET q == Quantum(x)
        r == x[3] % q
        down == <<x[1], x[2], x[3] - r>>
        up == Carry(<<x[1], x[2], x[3] - r + q>>)
        twice == 2 * (r * den + num)
    IN  IF twice < q * den THEN down
        ELSE IF twice > q * den THEN up
        ELSE IF ((x[3] - r) \div q) % 2 = 0 THEN down ELSE up

\* float(i)
F64FromInt(i) == <<i * Limb, 0, 0>>

\* k / n for integers 0 <= k, 0 < n, as the division of two floats rounds it
F64FromRatio(k, n) ==
    LET q1 == (k * Limb) \div n
        r1 == (k * Limb) % n
        q2 == (r1 * Limb) \div n
        r2 == (r1 * Limb) % n
        q3 == (r2 * Limb) \div n
        r3 == (r2 * Limb) % n
    IN  F64Round(<<q1, q2, q3>>, r3, n)

\* x - y for x >= y
F64Sub(x, y) == F64Round(Carry(<<x[1] - y[1], x[2] - y[2], x[3] - y[3]>>), 0, 1)

\* float(n) * x
F64MulInt(n, x) == F64Round(Carry(<<n * x[1], n * x[2], n * x[3]>>), 0, 1)

\* int(floor(x))
F64Floor(x) == x[1] \div Limb

F64Lt(x, y) ==
    \/ x[1] < y[1]
    \/ x[1] = y[1] /\ x[2] < y[2]
    \/ x[1] = y[1] /\ x[2] = y[2] /\ x[3] < y[3]

F64Zero == F64FromInt(0)
F64One == F64FromInt(1)

\* float(max(min(min_similarity, 1.0), 0.0))
clamp_min_similarity_f64(min_similarity) ==
    IF F64Lt(F64One, min_similarity) THEN F64One ELSE min_similarity

\* int(floor(max_lengths * (1 - (min_similarity / 1.0) ** (1 / 1.0))))
floor_max_distance_f64(max_lengths, min_similarity) ==
    F64Floor(F64MulInt(max_lengths, F64Sub(F64One, min_similarity)))

\* 1.0 * (1 - distance * 1.0 / max_lengths) ** 1.0
similarity_f64(distance, max_lengths) ==
    F64Sub(F64One, F64FromRatio(distance, max_lengths))

\* The locals of levsim(t1, t2, 1.0, 1.0, min_similarity) and what it returns.
levsim_f64(t1, t2, min_similarity) ==
    LET max_lengths == Max(Len(t1), Len(t2)) IN
    IF max_lengths = 0
    THEN [max_distance |-> 0, distance |-> 0, similarity |-> F64One]
    ELSE LET ms == clamp_min_similarity_f64(min_similarity)
             max_distance == floor_max_distance_f64(max_lengths, ms)
             distance == levdist(t1, t2, max_distance)
         IN  [max_distance |-> max_distance, distance |-> distance,
              similarity |-> similarity_f64(distance, max_lengths)]

\* Thresholds a caller passes: the literals 0.0, 0.1, ..., 1.0 and 1.5, and
\* scores levsim has returned for terms of these lengths.
MinSimilaritiesF64 ==
    {F64FromRatio(k, 10) : k \in 0..10} \cup {F64FromRatio(3, 2)}
        \cup UNION {{similarity_f64(d, n) : d \in 0..n} : n \in 1..MaxLen}

LevsimF64(t1, t2, min_similarity) ==
    /\ sim.state = "none"
    /\ LET frame == levsim_f64(t1, t2, min_similarity)
       IN  sim' = [state |-> "done", t1 |-> t1, t2 |-> t2, alpha |-> One,
                   beta |-> 1, min_similarity |-> min_similarity,
                   distance |-> None, max_distance |-> frame.max_distance,
                   outcome |-> Return(frame.similarity)]
    /\ UNCHANGED <<phase, self, automaton_files, built, call, local>>

F64Call ==
    /\ sim.state = "none"
    /\ \E t1 \in Terms, t2 \in Terms, min_similarity \in MinSimilaritiesF64 :
           LevsimF64(t1, t2, min_similarity)

NextF64 == F64Call \/ SimDiscard

SpecF64 == Init /\ [][NextF64]_vars

\* What levsim(t1, t2, 1.0, 1.0) returns for the exact Levenshtein distance,
\* that is, with no threshold.
F64Unclipped(t1, t2) ==
    similarity_f64(Levenshtein_distance(t1, t2), Max(Len(t1), Len(t2)))

\* C11: called without a precomputed distance, levsim returns either the
\* similarity of the exact Levenshtein distance or zero, and it returns zero in
\* place of that similarity only if that similarity is less than
\* min_similarity: clipping never changes a result at or above the threshold.
C11_AsClaimed ==
    (sim.state = "done" /\ sim.distance = None /\ Max(Len(sim.t1), Len(sim.t2)) > 0)
        => LET exact == F64Unclipped(sim.t1, sim.t2)
           IN  /\ sim.outcome.value \in {exact, F64Zero}
               /\ sim.outcome.value # exact => F64Lt(exact, sim.min_similarity)

====
